---- MODULE Spec2Model ----
(***************************************************************************)
(* Model of migrator.py: the rewrite passes that migrate an APIC tenant    *)
(* tree from the PANW device package 1.2 schema to 1.3, the cluster        *)
(* association rewrite, and the main() driver that selects passes and      *)
(* pushes the result.                                                      *)
(*                                                                         *)
(* Python strings are sequences of one-character strings, so that slicing, *)
(* endswith, concatenation and lower() are computed as Python computes     *)
(* them.  Tree nodes are records with a cls field naming the acitoolkit    *)
(* class and, where the class owns children, an ordered children list.     *)
(***************************************************************************)
EXTENDS Integers, Sequences, FiniteSets, TLC

(***************************************************************************)
(* String literals of the source.                                          *)
(***************************************************************************)
premigration == <<"_","p","r","e","m","i","g","r","a","t","i","o","n">>
InterfaceConfig == <<"I","n","t","e","r","f","a","c","e","C","o","n","f","i","g">>
Interface == <<"I","n","t","e","r","f","a","c","e">>
Layer3InterfaceConfig == <<"L","a","y","e","r","3","I","n","t","e","r","f","a","c","e","C","o","n","f","i","g">>
Layer2InterfaceConfig == <<"L","a","y","e","r","2","I","n","t","e","r","f","a","c","e","C","o","n","f","i","g">>
Layer3Interface == <<"L","a","y","e","r","3","I","n","t","e","r","f","a","c","e">>
Layer2Interface == <<"L","a","y","e","r","2","I","n","t","e","r","f","a","c","e">>
security_zone == <<"s","e","c","u","r","i","t","y","_","z","o","n","e">>
bridge_domain == <<"b","r","i","d","g","e","_","d","o","m","a","i","n">>
default_gateway == <<"d","e","f","a","u","l","t","_","g","a","t","e","w","a","y">>
Zone == <<"Z","o","n","e">>
Vlan == <<"V","l","a","n">>
StaticRoute == <<"S","t","a","t","i","c","R","o","u","t","e">>
vlan == <<"v","l","a","n">>
zone == <<"z","o","n","e">>
mode == <<"m","o","d","e">>
rel_suffix == <<"_","r","e","l">>
nexthop == <<"n","e","x","t","h","o","p">>
destination == <<"d","e","s","t","i","n","a","t","i","o","n">>
default_route == <<"0",".","0",".","0",".","0","/","0">>

\* The slice lengths the source hardcodes.
LayerKeyLen == 15
ModeLen == 6
SuffixLen == 13

(***************************************************************************)
(* Python string operations.                                               *)
(***************************************************************************)
Min(a, b) == IF a < b THEN a ELSE b
Max(a, b) == IF a > b THEN a ELSE b

\* s.endswith(suf)
EndsWith(s, suf) ==
    /\ Len(s) >= Len(suf)
    /\ SubSeq(s, Len(s) - Len(suf) + 1, Len(s)) = suf

\* s[:n] for n >= 0
Prefix(s, n) == SubSeq(s, 1, Min(n, Len(s)))

\* s[:-n] for n > 0
DropLast(s, n) == SubSeq(s, 1, Max(Len(s) - n, 0))

\* s[n:] for n >= 0
DropFirst(s, n) == SubSeq(s, Min(n, Len(s)) + 1, Len(s))

UpperCase == <<"A","B","C","D","E","F","G","H","I","J","K","L","M","N","O","P","Q","R","S","T","U","V","W","X","Y","Z">>
LowerCase == <<"a","b","c","d","e","f","g","h","i","j","k","l","m","n","o","p","q","r","s","t","u","v","w","x","y","z">>

LowerChar(c) ==
    IF \E i \in 1..Len(UpperCase) : UpperCase[i] = c
    THEN LowerCase[CHOOSE i \in 1..Len(UpperCase) : UpperCase[i] = c]
    ELSE c

\* s.lower()
Lower(s) == [i \in 1..Len(s) |-> LowerChar(s[i])]

(***************************************************************************)
(* The entity tree (acitoolkit): constructors and child operations.        *)
(***************************************************************************)
\* aci.Parameter(name, parent) followed by the key and value assignments
Parameter(name, key, value) ==
    [cls |-> "Parameter", name |-> name, key |-> key, value |-> value,
     deleted |-> FALSE]

\* aci.Relation(name, parent) followed by the key and targetName assignments
Relation(name, key, targetName) ==
    [cls |-> "Relation", name |-> name, key |-> key, targetName |-> targetName,
     deleted |-> FALSE]

\* aci.Folder(name, parent) followed by the attribute assignments
Folder(name, key, ctrct, devCtx, graph, node, scoped, children) ==
    [cls |-> "Folder", name |-> name, key |-> key,
     ctrctNameOrLbl |-> ctrct, devCtxLbl |-> devCtx,
     graphNameOrLbl |-> graph, nodeNameOrLbl |-> node, scopedBy |-> scoped,
     deleted |-> FALSE, children |-> children]

EPG(name, children) == [cls |-> "EPG", name |-> name, children |-> children]

AppProfile(name, children) ==
    [cls |-> "AppProfile", name |-> name, children |-> children]

Tenant(name, children) ==
    [cls |-> "Tenant", name |-> name, children |-> children]

\* obj.mark_as_deleted(): the node stays in the tree, flagged
mark_as_deleted(obj) == [obj EXCEPT !.deleted = TRUE]

\* parent.add_child(obj): appended to the parent's children
add_child(children, obj) == Append(children, obj)

\* deepcopy(folder): an independent clone of the subtree; the clone shares
\* nothing with the original, so later writes to the original do not reach it
deepcopy(obj) == obj

IsA(obj, cls) == obj.cls = cls

\* tenant.get_child(aci.AppProfile, app_name): index of the first child of the
\* class with that name, 0 when there is none
get_child(tenant, cls, name) ==
    IF \E i \in 1..Len(tenant.children) :
           IsA(tenant.children[i], cls) /\ tenant.children[i].name = name
    THEN CHOOSE i \in 1..Len(tenant.children) :
           /\ IsA(tenant.children[i], cls) /\ tenant.children[i].name = name
           /\ \A j \in 1..(i-1) :
                ~(IsA(tenant.children[j], cls) /\ tenant.children[j].name = name)
    ELSE 0

(***************************************************************************)
(* The scaffold every pass shares: look the AppProfile up by name, return  *)
(* False when it is absent, otherwise visit each of its EPGs in order.     *)
(* A per-EPG step maps an EPG to [epg, changed].                           *)
(***************************************************************************)
NoChange(tenant) == [tenant |-> tenant, changed |-> FALSE]

\* The result of visiting the EPGs of tenant.children[a], given each EPG's
\* result in res (a sequence parallel to the app's children)
WithEpgResults(tenant, a, res) ==
    [tenant |-> [tenant EXCEPT !.children[a].children =
                    [e \in 1..Len(res) |-> res[e].epg]],
     changed |-> \E e \in 1..Len(res) : res[e].changed]

(***************************************************************************)
(* migrate_interface_folder_keys                                           *)
(***************************************************************************)
\* subfolder.key = subfolder.key[:15] for the two LayerNInterfaceConfig keys
StripConfig(subfolder) ==
    IF IsA(subfolder, "Folder")
       /\ subfolder.key \in {Layer3InterfaceConfig, Layer2InterfaceConfig}
    THEN [subfolder EXCEPT !.key = Prefix(subfolder.key, LayerKeyLen)]
    ELSE subfolder

\* the folder made 1.3 compatible in place
RenameKeys(folder) ==
    [folder EXCEPT !.key = Interface,
                   !.children = [j \in 1..Len(folder.children) |->
                                    StripConfig(folder.children[j])]]

\* the backup taken after the folder was rewritten instead of before
BackupOfLate(folder) ==
    [deepcopy(RenameKeys(folder)) EXCEPT
        !.name = folder.name \o premigration,
        !.ctrctNameOrLbl = folder.ctrctNameOrLbl \o premigration]

\* the backup: a deep copy renamed with the suffix on name and ctrctNameOrLbl
BackupOf(folder) ==
    [deepcopy(folder) EXCEPT !.name = folder.name \o premigration,
                             !.ctrctNameOrLbl = folder.ctrctNameOrLbl \o premigration]

\* the test without the check for the backup suffix
NeedsKeyMigrationAnyName(folder) ==
    IsA(folder, "Folder") /\ folder.key = InterfaceConfig

NeedsKeyMigration(folder) ==
    /\ IsA(folder, "Folder")
    /\ folder.key = InterfaceConfig
    /\ ~EndsWith(folder.name, premigration)

\* the loop over epg.get_children(aci.Folder): children is the EPG's child list
\* as it stands, i the position reached, n the length of the snapshot
RECURSIVE KeysLoop(_, _, _, _)
KeysLoop(children, i, n, changed) ==
    IF i > n THEN [children |-> children, changed |-> changed]
    ELSE IF NeedsKeyMigration(children[i])
    THEN KeysLoop([add_child(children, BackupOf(children[i]))
                      EXCEPT ![i] = RenameKeys(children[i])],
                  i + 1, n, TRUE)
    ELSE KeysLoop(children, i + 1, n, changed)

KeysEpg(epg) ==
    IF ~IsA(epg, "EPG") THEN [epg |-> epg, changed |-> FALSE]
    ELSE LET r == KeysLoop(epg.children, 1, Len(epg.children), FALSE)
         IN [epg |-> [epg EXCEPT !.children = r.children], changed |-> r.changed]

migrate_interface_folder_keys(tenant, app_name) ==
    LET a == get_child(tenant, "AppProfile", app_name)
    IN IF a = 0 THEN NoChange(tenant)
       ELSE WithEpgResults(tenant, a,
                [e \in 1..Len(tenant.children[a].children) |->
                    KeysEpg(tenant.children[a].children[e])])

(***************************************************************************)
(* migrate_zones_and_vlans                                                 *)
(***************************************************************************)
IsLayerFolder(f) ==
    IsA(f, "Folder") /\ f.key \in {Layer3Interface, Layer2Interface}

IsZoneOrVlanParam(p) ==
    IsA(p, "Parameter") /\ p.key \in {security_zone, bridge_domain}

\* the new folder with the zone's mode taken from the key without lower()
ZoneOrVlanFolderNoLower(param, folder, layerfolder) ==
    IF param.key = bridge_domain
    THEN Folder(param.value, Vlan, folder.ctrctNameOrLbl, folder.devCtxLbl,
                folder.graphNameOrLbl, folder.nodeNameOrLbl, folder.scopedBy,
                <<>>)
    ELSE Folder(param.value, Zone, folder.ctrctNameOrLbl, folder.devCtxLbl,
                folder.graphNameOrLbl, folder.nodeNameOrLbl, folder.scopedBy,
                <<Parameter(mode, mode, Prefix(layerfolder.key, ModeLen))>>)

\* the new Vlan or Zone folder created under the EPG for param
ZoneOrVlanFolder(param, folder, layerfolder) ==
    IF param.key = bridge_domain
    THEN Folder(param.value, Vlan, folder.ctrctNameOrLbl, folder.devCtxLbl,
                folder.graphNameOrLbl, folder.nodeNameOrLbl, folder.scopedBy,
                <<>>)
    ELSE Folder(param.value, Zone, folder.ctrctNameOrLbl, folder.devCtxLbl,
                folder.graphNameOrLbl, folder.nodeNameOrLbl, folder.scopedBy,
                <<Parameter(mode, mode, Lower(Prefix(layerfolder.key, ModeLen)))>>)

\* the relation created on the layer folder, pointing at the new folder by name
ZoneOrVlanRelation(param) ==
    Relation(param.key \o rel_suffix,
             IF param.key = bridge_domain THEN vlan ELSE zone,
             param.value)

\* the loop over layerfolder.get_children(aci.Parameter): lf is the layer
\* folder as it stands, created the folders added to the EPG so far
RECURSIVE ZoneParamLoop(_, _, _, _, _)
ZoneParamLoop(lf, folder, k, n, created) ==
    IF k > n THEN [lf |-> lf, created |-> created]
    ELSE IF IsZoneOrVlanParam(lf.children[k])
    THEN LET param == lf.children[k]
             marked == [lf EXCEPT !.children[k] = mark_as_deleted(param)]
         IN ZoneParamLoop(
                [marked EXCEPT !.children =
                    add_child(marked.children, ZoneOrVlanRelation(param))],
                folder, k + 1, n,
                add_child(created, ZoneOrVlanFolder(param, folder, lf)))
    ELSE ZoneParamLoop(lf, folder, k + 1, n, created)

\* the loop over folder.get_children(aci.Folder)
RECURSIVE ZoneLayerLoop(_, _, _, _)
ZoneLayerLoop(folder, j, n, created) ==
    IF j > n THEN [folder |-> folder, created |-> created]
    ELSE IF IsLayerFolder(folder.children[j])
    THEN LET r == ZoneParamLoop(folder.children[j], folder, 1,
                                Len(folder.children[j].children), created)
         IN ZoneLayerLoop([folder EXCEPT !.children[j] = r.lf], j + 1, n,
                          r.created)
    ELSE ZoneLayerLoop(folder, j + 1, n, created)

IsInterfaceFolder(f) == IsA(f, "Folder") /\ f.key = Interface

\* the loop over epg.get_children(aci.Folder); the folders created are appended
\* to the EPG as they are made, after the snapshot the loop walks
RECURSIVE ZoneFolderLoop(_, _, _)
ZoneFolderLoop(children, i, n) ==
    IF i > n THEN children
    ELSE IF IsInterfaceFolder(children[i])
    THEN LET r == ZoneLayerLoop(children[i], 1, Len(children[i].children), <<>>)
         IN ZoneFolderLoop([children EXCEPT ![i] = r.folder] \o r.created,
                           i + 1, n)
    ELSE ZoneFolderLoop(children, i + 1, n)

\* changes_made: some parameter matched
HasZoneOrVlanParam(epg) ==
    \E i \in 1..Len(epg.children) :
        /\ IsInterfaceFolder(epg.children[i])
        /\ \E j \in 1..Len(epg.children[i].children) :
              /\ IsLayerFolder(epg.children[i].children[j])
              /\ \E k \in 1..Len(epg.children[i].children[j].children) :
                    IsZoneOrVlanParam(epg.children[i].children[j].children[k])

ZonesEpg(epg) ==
    IF ~IsA(epg, "EPG") THEN [epg |-> epg, changed |-> FALSE]
    ELSE [epg |-> [epg EXCEPT !.children =
                      ZoneFolderLoop(epg.children, 1, Len(epg.children))],
          changed |-> HasZoneOrVlanParam(epg)]

migrate_zones_and_vlans(tenant, app_name) ==
    LET a == get_child(tenant, "AppProfile", app_name)
    IN IF a = 0 THEN NoChange(tenant)
       ELSE WithEpgResults(tenant, a,
                [e \in 1..Len(tenant.children[a].children) |->
                    ZonesEpg(tenant.children[a].children[e])])

(***************************************************************************)
(* migrate_default_gateway                                                 *)
(***************************************************************************)
IsGatewayParam(p) == IsA(p, "Parameter") /\ p.key = default_gateway

\* the new StaticRoute folder created under the EPG for param
StaticRouteFolder(param, folder) ==
    Folder(default_gateway, StaticRoute, folder.ctrctNameOrLbl,
           folder.devCtxLbl, folder.graphNameOrLbl, folder.nodeNameOrLbl,
           folder.scopedBy,
           <<Parameter(nexthop, nexthop, param.value),
             Parameter(destination, destination, default_route)>>)

RECURSIVE GatewayParamLoop(_, _, _, _, _)
GatewayParamLoop(lf, folder, k, n, created) ==
    IF k > n THEN [lf |-> lf, created |-> created]
    ELSE IF IsGatewayParam(lf.children[k])
    THEN GatewayParamLoop(
             [lf EXCEPT !.children[k] = mark_as_deleted(lf.children[k])],
             folder, k + 1, n,
             add_child(created, StaticRouteFolder(lf.children[k], folder)))
    ELSE GatewayParamLoop(lf, folder, k + 1, n, created)

RECURSIVE GatewayLayerLoop(_, _, _, _)
GatewayLayerLoop(folder, j, n, created) ==
    IF j > n THEN [folder |-> folder, created |-> created]
    ELSE IF IsLayerFolder(folder.children[j])
    THEN LET r == GatewayParamLoop(folder.children[j], folder, 1,
                                   Len(folder.children[j].children), created)
         IN GatewayLayerLoop([folder EXCEPT !.children[j] = r.lf], j + 1, n,
                             r.created)
    ELSE GatewayLayerLoop(folder, j + 1, n, created)

RECURSIVE GatewayFolderLoop(_, _, _)
GatewayFolderLoop(children, i, n) ==
    IF i > n THEN children
    ELSE IF IsInterfaceFolder(children[i])
    THEN LET r == GatewayLayerLoop(children[i], 1, Len(children[i].children),
                                   <<>>)
         IN GatewayFolderLoop([children EXCEPT ![i] = r.folder] \o r.created,
                              i + 1, n)
    ELSE GatewayFolderLoop(children, i + 1, n)

HasGatewayParam(epg) ==
    \E i \in 1..Len(epg.children) :
        /\ IsInterfaceFolder(epg.children[i])
        /\ \E j \in 1..Len(epg.children[i].children) :
              /\ IsLayerFolder(epg.children[i].children[j])
              /\ \E k \in 1..Len(epg.children[i].children[j].children) :
                    IsGatewayParam(epg.children[i].children[j].children[k])

GatewayEpg(epg) ==
    IF ~IsA(epg, "EPG") THEN [epg |-> epg, changed |-> FALSE]
    ELSE [epg |-> [epg EXCEPT !.children =
                      GatewayFolderLoop(epg.children, 1, Len(epg.children))],
          changed |-> HasGatewayParam(epg)]

migrate_default_gateway(tenant, app_name) ==
    LET a == get_child(tenant, "AppProfile", app_name)
    IN IF a = 0 THEN NoChange(tenant)
       ELSE WithEpgResults(tenant, a,
                [e \in 1..Len(tenant.children[a].children) |->
                    GatewayEpg(tenant.children[a].children[e])])

(***************************************************************************)
(* cleanup_interface_folders                                               *)
(***************************************************************************)
\* the test without the check for the backup suffix
IsBackupFolderAnyName(f) == IsA(f, "Folder") /\ f.key = InterfaceConfig

IsBackupFolder(f) ==
    /\ IsA(f, "Folder")
    /\ f.key = InterfaceConfig
    /\ EndsWith(f.name, premigration)

CleanupEpg(epg) ==
    IF ~IsA(epg, "EPG") THEN [epg |-> epg, changed |-> FALSE]
    ELSE [epg |-> [epg EXCEPT !.children =
                      [i \in 1..Len(epg.children) |->
                          IF IsBackupFolder(epg.children[i])
                          THEN mark_as_deleted(epg.children[i])
                          ELSE epg.children[i]]],
          changed |-> \E i \in 1..Len(epg.children) :
                          IsBackupFolder(epg.children[i])]

cleanup_interface_folders(tenant, app_name) ==
    LET a == get_child(tenant, "AppProfile", app_name)
    IN IF a = 0 THEN NoChange(tenant)
       ELSE WithEpgResults(tenant, a,
                [e \in 1..Len(tenant.children[a].children) |->
                    CleanupEpg(tenant.children[a].children[e])])

(***************************************************************************)
(* delete_migrated_folders                                                 *)
(***************************************************************************)
IsMigratedFolder(f) ==
    IsA(f, "Folder") /\ f.key \in {Interface, Zone, Vlan, StaticRoute}

DeleteMigratedEpg(epg) ==
    IF ~IsA(epg, "EPG") THEN [epg |-> epg, changed |-> FALSE]
    ELSE [epg |-> [epg EXCEPT !.children =
                      [i \in 1..Len(epg.children) |->
                          IF IsMigratedFolder(epg.children[i])
                          THEN mark_as_deleted(epg.children[i])
                          ELSE epg.children[i]]],
          changed |-> \E i \in 1..Len(epg.children) :
                          IsMigratedFolder(epg.children[i])]

delete_migrated_folders(tenant, app_name) ==
    LET a == get_child(tenant, "AppProfile", app_name)
    IN IF a = 0 THEN NoChange(tenant)
       ELSE WithEpgResults(tenant, a,
                [e \in 1..Len(tenant.children[a].children) |->
                    DeleteMigratedEpg(tenant.children[a].children[e])])

(***************************************************************************)
(* revert_interface_folders                                                *)
(***************************************************************************)
\* the first loop: epg.remove_child(folder) for every migrated folder
RemoveMigrated(children) ==
    SelectSeq(children, LAMBDA c : ~IsMigratedFolder(c))

HasBackupName(f) == IsA(f, "Folder") /\ EndsWith(f.name, premigration)

\* the restore that also clears the deletion mark of the restored folder
RestoreNameLive(folder) ==
    [folder EXCEPT !.name = DropLast(folder.name, SuffixLen),
                   !.ctrctNameOrLbl = DropLast(folder.ctrctNameOrLbl, SuffixLen),
                   !.deleted = FALSE]

\* folder.name = folder.name[:-13]; folder.ctrctNameOrLbl likewise
RestoreName(folder) ==
    [folder EXCEPT !.name = DropLast(folder.name, SuffixLen),
                   !.ctrctNameOrLbl = DropLast(folder.ctrctNameOrLbl, SuffixLen)]

\* the second loop, over the folders left after the removals
RECURSIVE RestoreLoop(_, _, _, _)
RestoreLoop(children, i, n, changed) ==
    IF i > n THEN [children |-> children, changed |-> changed]
    ELSE IF HasBackupName(children[i])
    THEN RestoreLoop(
             [add_child(children, mark_as_deleted(deepcopy(children[i])))
                 EXCEPT ![i] = RestoreName(children[i])],
             i + 1, n, TRUE)
    ELSE RestoreLoop(children, i + 1, n, changed)

RevertEpg(epg) ==
    IF ~IsA(epg, "EPG") THEN [epg |-> epg, changed |-> FALSE]
    ELSE LET kept == RemoveMigrated(epg.children)
             r == RestoreLoop(kept, 1, Len(kept), FALSE)
         IN [epg |-> [epg EXCEPT !.children = r.children],
             changed |-> r.changed]

revert_interface_folders(tenant, app_name) ==
    LET a == get_child(tenant, "AppProfile", app_name)
    IN IF a = 0 THEN NoChange(tenant)
       ELSE WithEpgResults(tenant, a,
                [e \in 1..Len(tenant.children[a].children) |->
                    RevertEpg(tenant.children[a].children[e])])

(***************************************************************************)
(* Cluster association records (get_clusters): each record is a dict from  *)
(* one APIC class name to its attributes.                                  *)
(***************************************************************************)
mDev12 ==
    <<"u","n","i","/","i","n","f","r","a","/","m","D","e","v","-","P","a","l",
      "o","A","l","t","o","N","e","t","w","o","r","k","s","-","P","A","N","O",
      "S","-","1",".","2">>
mDev13 ==
    <<"u","n","i","/","i","n","f","r","a","/","m","D","e","v","-","P","a","l",
      "o","A","l","t","o","N","e","t","w","o","r","k","s","-","P","A","N","O",
      "S","-","1",".","3">>
mDevMgr12 ==
    <<"u","n","i","/","i","n","f","r","a","/","m","D","e","v","M","g","r","-",
      "P","a","l","o","A","l","t","o","N","e","t","w","o","r","k","s","-","P",
      "a","n","o","r","a","m","a","-","1",".","2">>
mDevMgr13 ==
    <<"u","n","i","/","i","n","f","r","a","/","m","D","e","v","M","g","r","-",
      "P","a","l","o","A","l","t","o","N","e","t","w","o","r","k","s","-","P",
      "a","n","o","r","a","m","a","-","1",".","3">>
mChassis12 ==
    <<"u","n","i","/","i","n","f","r","a","/","m","C","h","a","s","s","i","s",
      "-","P","a","l","o","A","l","t","o","N","e","t","w","o","r","k","s","-",
      "C","h","a","s","s","i","s","-","1",".","2">>
mChassis13 ==
    <<"u","n","i","/","i","n","f","r","a","/","m","C","h","a","s","s","i","s",
      "-","P","a","l","o","A","l","t","o","N","e","t","w","o","r","k","s","-",
      "C","h","a","s","s","i","s","-","1",".","3">>
mDevOther ==
    <<"u","n","i","/","i","n","f","r","a","/","m","D","e","v","-","O","t","h",
      "e","r","-","1",".","0">>
dnFw1 ==
    <<"u","n","i","/","t","n","-","t","1","/","l","D","e","v","V","i","p","-",
      "f","w","1","/","r","s","M","D","e","v","A","t","t">>
dnFw2 ==
    <<"u","n","i","/","t","n","-","t","1","/","l","D","e","v","V","i","p","-",
      "f","w","2","/","r","s","M","D","e","v","A","t","t">>
dnMgr ==
    <<"u","n","i","/","t","n","-","t","1","/","d","e","v","M","g","r","-","p",
      "a","n">>
dnChassis ==
    <<"u","n","i","/","t","n","-","t","1","/","c","h","a","s","s","i","s","-",
      "c","h","1">>

\* s.split(sep) for a one-character separator
RECURSIVE SplitFrom(_, _, _, _)
SplitFrom(s, sep, i, cur) ==
    IF i > Len(s) THEN <<cur>>
    ELSE IF s[i] = sep THEN <<cur>> \o SplitFrom(s, sep, i + 1, <<>>)
    ELSE SplitFrom(s, sep, i + 1, Append(cur, s[i]))

Split(s, sep) == SplitFrom(s, sep, 1, <<>>)

\* the position of the cluster's own part in the dn, and the length of the
\* class prefix cut from it: dn.split('/')[2][8:]
DnPart == 3
DnPrefixLen == 8

HasKey(cluster, key) == key \in DOMAIN cluster

\* get_clusters: the records on the controller, or nothing when the query fails
get_clusters(records, ok) == IF ok THEN records ELSE <<>>

\* the entry emitted for a device-package attachment
LDevVipEntry(cluster, tDn) ==
    [vnsLDevVip |->
        [attributes |->
            [name |-> DropFirst(Split(cluster.vnsRsMDevAtt.attributes.dn, "/")[DnPart],
                                DnPrefixLen)],
         children |-> <<[vnsRsMDevAtt |-> [attributes |-> [tDn |-> tDn]]]>>]]

\* the loop of migrate_clusters over cluster_rels from record i on; error names
\* the exception that ended it, "" when it ran to the end
RECURSIVE MigrateClustersLoop(_, _, _)
MigrateClustersLoop(rels, i, result) ==
    IF i > Len(rels) THEN [result |-> result, error |-> ""]
    ELSE LET cluster == rels[i]
         IN IF HasKey(cluster, "vnsRsMDevAtt")
               /\ cluster.vnsRsMDevAtt.attributes.tDn = mDev12
            THEN IF Len(Split(cluster.vnsRsMDevAtt.attributes.dn, "/")) < DnPart
                 THEN [result |-> result, error |-> "IndexError"]
                 ELSE MigrateClustersLoop(rels, i + 1,
                          Append(result, LDevVipEntry(cluster, mDev13)))
            ELSE IF HasKey(cluster, "vnsRsDevMgrToMDevMgr")
               /\ cluster.vnsRsDevMgrToMDevMgr.attributes.tDn = mDevMgr12
            THEN \* cluster.name: a dict has no attribute name
                 [result |-> result, error |-> "AttributeError"]
            ELSE IF HasKey(cluster, "vnsRsChassisToMChassis")
               /\ cluster.vnsRsChassisToMChassis.attributes.tDn = mChassis12
            THEN [result |-> result, error |-> "AttributeError"]
            ELSE MigrateClustersLoop(rels, i + 1, result)

migrate_clusters(records, ok) ==
    MigrateClustersLoop(get_clusters(records, ok), 1, <<>>)

\* the loop of revert_clusters: its first test indexes the record without
\* asking whether the key is there
RECURSIVE RevertClustersLoop(_, _, _)
RevertClustersLoop(rels, i, result) ==
    IF i > Len(rels) THEN [result |-> result, error |-> ""]
    ELSE LET cluster == rels[i]
         IN IF ~HasKey(cluster, "vnsRsMDevAtt")
            THEN [result |-> result, error |-> "KeyError"]
            ELSE IF cluster.vnsRsMDevAtt.attributes.tDn = mDev13
            THEN IF Len(Split(cluster.vnsRsMDevAtt.attributes.dn, "/")) < DnPart
                 THEN [result |-> result, error |-> "IndexError"]
                 ELSE RevertClustersLoop(rels, i + 1,
                          Append(result, LDevVipEntry(cluster, mDev12)))
            ELSE IF HasKey(cluster, "vnsRsDevMgrToMDevMgr")
               /\ cluster.vnsRsDevMgrToMDevMgr.attributes.tDn = mDevMgr13
            THEN [result |-> result, error |-> "AttributeError"]
            ELSE IF HasKey(cluster, "vnsRsChassisToMChassis")
               /\ cluster.vnsRsChassisToMChassis.attributes.tDn = mChassis13
            THEN [result |-> result, error |-> "AttributeError"]
            ELSE RevertClustersLoop(rels, i + 1, result)

revert_clusters(records, ok) ==
    RevertClustersLoop(get_clusters(records, ok), 1, <<>>)

\* the records a query can return
DevAtt(dn, tDn) == [vnsRsMDevAtt |-> [attributes |-> [dn |-> dn, tDn |-> tDn]]]

DevMgrAtt(tDn) ==
    [vnsRsDevMgrToMDevMgr |-> [attributes |-> [dn |-> dnMgr, tDn |-> tDn]]]

ChassisAtt(tDn) ==
    [vnsRsChassisToMChassis |-> [attributes |-> [dn |-> dnChassis, tDn |-> tDn]]]

\* a vnsDevMgr object: none of the three reference shapes
DevMgrObject == [vnsDevMgr |-> [attributes |-> [dn |-> dnMgr]]]

RecordPool ==
    {DevAtt(dnFw1, mDev12), DevAtt(dnFw1, mDev13), DevAtt(dnFw2, mDevOther),
     DevMgrAtt(mDevMgr12), DevMgrAtt(mDevMgr13),
     ChassisAtt(mChassis12), ChassisAtt(mChassis13), DevMgrObject}

MaxRecords == 2

RecordLists == UNION {[1..n -> RecordPool] : n \in 0..MaxRecords}

(***************************************************************************)
(* Tenant trees the passes are run on.  A tree has the named AppProfile a1 *)
(* (its first EPG holds up to MaxFolders folders drawn from FolderPool)    *)
(* and a second AppProfile a2 that no pass is asked to touch.              *)
(***************************************************************************)
MaxFolders == 2
MaxPasses == 5

Str2(a, b) == <<a, b>>

\* a folder with labels numbered n, as the controller returns it
PoolFolder(name, key, n, children) ==
    Folder(name, key, Str2("c", n), Str2("d", n), Str2("g", n), Str2("n", n),
           Str2("s", n), children)

\* a backup as an earlier migration left it on the controller
PoolBackup(name, n, children) ==
    Folder(name \o premigration, InterfaceConfig, Str2("c", n) \o premigration,
           Str2("d", n), Str2("g", n), Str2("n", n), Str2("s", n), children)

OtherKey == <<"N","A","T">>
mtu == <<"m","t","u">>

\* version 1.2: a layer-3 interface with a zone, a gateway and another parameter
IfaceL3 ==
    PoolFolder(Str2("f", "1"), InterfaceConfig, "1",
        <<PoolFolder(Str2("l", "3"), Layer3InterfaceConfig, "1",
            <<Parameter(Str2("p", "1"), security_zone, Str2("z", "A")),
              Parameter(Str2("p", "2"), default_gateway, Str2("g", "w")),
              Parameter(Str2("p", "3"), mtu, Str2("9", "k"))>>)>>)

\* version 1.2: a layer-2 interface with a zone and a bridge domain, beside a
\* sub-folder of another key
IfaceL2 ==
    PoolFolder(Str2("f", "2"), InterfaceConfig, "2",
        <<PoolFolder(Str2("l", "2"), Layer2InterfaceConfig, "2",
            <<Parameter(Str2("p", "1"), bridge_domain, Str2("b", "D")),
              Parameter(Str2("p", "2"), security_zone, Str2("z", "B"))>>),
          PoolFolder(Str2("x", "x"), OtherKey, "2", <<>>)>>)

\* already migrated and pushed: the backup, the 1.3 folder and its zone
BackupF3 ==
    PoolBackup(Str2("f", "3"), "3",
        <<PoolFolder(Str2("l", "3"), Layer3InterfaceConfig, "3",
            <<Parameter(Str2("p", "1"), security_zone, Str2("z", "C"))>>)>>)

MigratedF3 ==
    PoolFolder(Str2("f", "3"), Interface, "3",
        <<PoolFolder(Str2("l", "3"), Layer3Interface, "3",
            <<Relation(security_zone \o rel_suffix, zone, Str2("z", "C"))>>)>>)

ZoneC ==
    PoolFolder(Str2("z", "C"), Zone, "3",
        <<Parameter(mode, mode, Lower(Prefix(Layer3Interface, ModeLen)))>>)

\* a folder of a key the migration does not know
OtherFolder ==
    PoolFolder(Str2("o", "1"), OtherKey, "4",
        <<Parameter(Str2("p", "1"), mtu, Str2("1", "k"))>>)

FolderPool == <<IfaceL3, IfaceL2, BackupF3, MigratedF3, OtherFolder>>

\* the sequences of at most n distinct pool folders
RECURSIVE PoolSeqs(_)
PoolSeqs(n) ==
    IF n = 0 THEN {<<>>}
    ELSE LET shorter == PoolSeqs(n - 1)
         IN shorter \cup
            UNION {{Append(q, FolderPool[i]) :
                       i \in {k \in 1..Len(FolderPool) :
                                 \A x \in 1..Len(q) : q[x] /= FolderPool[k]}} :
                   q \in {r \in shorter : Len(r) = n - 1}}

app1 == Str2("a", "1")
app2 == Str2("a", "2")
appMissing == Str2("a", "9")

\* the AppProfile no pass is asked to touch: it holds what every pass looks for
OtherApp ==
    AppProfile(app2,
        <<EPG(Str2("e", "9"), <<IfaceL3, BackupF3, MigratedF3>>)>>)

TenantWith(epgs) ==
    Tenant(Str2("t", "1"), <<AppProfile(app1, epgs), OtherApp>>)

\* two EPGs under the named AppProfile
TwoEpgTrees ==
    {TenantWith(<<EPG(Str2("e", "1"), <<IfaceL3>>),
                  EPG(Str2("e", "2"), <<IfaceL2, OtherFolder>>)>>),
     TenantWith(<<EPG(Str2("e", "1"), <<BackupF3, MigratedF3, ZoneC>>),
                  EPG(Str2("e", "2"), <<IfaceL3>>)>>)}

InitialTrees ==
    {TenantWith(<<EPG(Str2("e", "1"), q)>>) : q \in PoolSeqs(MaxFolders)}
        \cup TwoEpgTrees

(***************************************************************************)
(* State.                                                                  *)
(***************************************************************************)
VARIABLES
    tenant,     \* the in-memory tenant tree the passes rewrite
    app_name,   \* the AppProfile name handed to the passes
    tenant0,    \* the tree as first obtained (what the controller holds)
    same,       \* whether the last pass left the tree exactly as it was
    last,       \* the last pass or cluster call run, "" before the first
    prior,      \* the pass run before the last, "" when there is none
    ret,        \* what the last pass returned (changes_made)
    steps,      \* how many passes or cluster calls have run
    fwd,        \* k when the passes run so far are exactly the first k of Chain
    cln,        \* since the last cleanup, with only revert passes after it:
                \* the live InterfaceConfig folders it left
    args,       \* main(): the parsed command line
    pc,         \* main(): the statement reached
    changes_made, \* main(): the union of the passes' results
    clusters,   \* main(): the cluster entries to merge into the payload
    pushed,     \* main(): the payloads handed to push_to_apic, in order
    ran,        \* main(): the passes and cluster calls executed, in order
    rels,       \* the association records the controller holds
    query_ok,   \* whether the last get_clusters query succeeded
    out,        \* what the last cluster call returned
    err         \* the exception that ended the last cluster call, "" for none

passVars ==
    <<tenant, app_name, tenant0, same, last, prior, ret, steps, fwd, cln>>

mainVars == <<args, pc, changes_made, clusters, pushed, ran>>

clusterVars == <<rels, query_ok, out, err>>

vars == <<passVars, mainVars, clusterVars>>

\* forward migration followed by revert, in main()'s order
Chain == <<"keys", "zones", "gateway", "delete", "revert">>

RevertPasses == {"delete", "revert"}

NoCleanup == [seen |-> FALSE]

\* the absent value of an optional argument (None)
None == <<>>

NoArgs ==
    [parameters |-> FALSE, clusters |-> FALSE, revert |-> FALSE,
     cleanup |-> FALSE, tenant |-> None, app |-> None, dry_run |-> FALSE]

\* the EPG-level folders of the named AppProfile, in order
RECURSIVE Flatten(_)
Flatten(seqs) ==
    IF seqs = <<>> THEN <<>> ELSE Head(seqs) \o Flatten(Tail(seqs))

AppFolders(t, name) ==
    LET a == get_child(t, "AppProfile", name)
    IN IF a = 0 THEN <<>>
       ELSE SelectSeq(
                Flatten([e \in 1..Len(t.children[a].children) |->
                            t.children[a].children[e].children]),
                LAMBDA c : IsA(c, "Folder"))

LiveInterfaceConfig(t, name) ==
    SelectSeq(AppFolders(t, name),
              LAMBDA f : f.key = InterfaceConfig /\ ~f.deleted)

(***************************************************************************)
(* The passes as steps on the in-memory tree, in any order.                *)
(***************************************************************************)
InitPasses ==
    /\ tenant0 \in InitialTrees
    /\ tenant = tenant0
    /\ app_name \in {app1, appMissing}
    /\ same = TRUE
    /\ last = ""
    /\ prior = ""
    /\ ret = FALSE
    /\ steps = 0
    /\ fwd = 0
    /\ cln = NoCleanup
    /\ args = NoArgs
    /\ pc = "passes"
    /\ changes_made = FALSE
    /\ clusters = <<>>
    /\ pushed = <<>>
    /\ ran = <<>>
    /\ rels = <<>>
    /\ query_ok = TRUE
    /\ out = <<>>
    /\ err = ""

\* the bookkeeping every pass step shares: r is what the pass returned
Ran(pass, r) ==
    /\ steps < MaxPasses
    /\ tenant' = r.tenant
    /\ ret' = r.changed
    /\ same' = (r.tenant = tenant)
    /\ last' = pass
    /\ prior' = last
    /\ steps' = steps + 1
    /\ fwd' = IF fwd = steps /\ fwd < Len(Chain) /\ Chain[fwd + 1] = pass
              THEN fwd + 1 ELSE -1
    /\ cln' = IF pass = "cleanup"
              THEN [seen |-> TRUE,
                    changed |-> r.changed,
                    live |-> LiveInterfaceConfig(r.tenant, app_name),
                    reverted |-> FALSE]
              ELSE IF pass \in RevertPasses /\ cln.seen
              THEN [cln EXCEPT !.reverted = @ \/ pass = "revert"]
              ELSE NoCleanup
    /\ UNCHANGED <<app_name, tenant0, mainVars, clusterVars>>

RunKeys == Ran("keys", migrate_interface_folder_keys(tenant, app_name))

RunZones == Ran("zones", migrate_zones_and_vlans(tenant, app_name))

RunGateway == Ran("gateway", migrate_default_gateway(tenant, app_name))

RunCleanup == Ran("cleanup", cleanup_interface_folders(tenant, app_name))

RunDelete == Ran("delete", delete_migrated_folders(tenant, app_name))

RunRevert == Ran("revert", revert_interface_folders(tenant, app_name))

NextPasses ==
    \/ RunKeys
    \/ RunZones
    \/ RunGateway
    \/ RunCleanup
    \/ RunDelete
    \/ RunRevert

SpecPasses == InitPasses /\ [][NextPasses]_vars

(***************************************************************************)
(* The cluster calls on their own: the controller holds any list of        *)
(* records, and migrate_clusters and revert_clusters are called on it.     *)
(***************************************************************************)
MaxCalls == 2

InitClusters ==
    /\ rels \in RecordLists
    /\ query_ok = TRUE
    /\ out = <<>>
    /\ err = ""
    /\ last = ""
    /\ steps = 0
    /\ tenant0 = TenantWith(<<>>)
    /\ tenant = tenant0
    /\ app_name = app1
    /\ same = TRUE
    /\ prior = ""
    /\ ret = FALSE
    /\ fwd = 0
    /\ cln = NoCleanup
    /\ args = NoArgs
    /\ pc = "clusters"
    /\ changes_made = FALSE
    /\ clusters = <<>>
    /\ pushed = <<>>
    /\ ran = <<>>

Called(name, ok, r) ==
    /\ steps < MaxCalls
    /\ query_ok' = ok
    /\ out' = r.result
    /\ err' = r.error
    /\ last' = name
    /\ steps' = steps + 1
    /\ UNCHANGED <<tenant, app_name, tenant0, same, prior, ret, fwd, cln,
                   mainVars, rels>>

CallMigrateClusters ==
    \E ok \in BOOLEAN :
        Called("migrate_clusters", ok, migrate_clusters(rels, ok))

CallRevertClusters ==
    \E ok \in BOOLEAN :
        Called("revert_clusters", ok, revert_clusters(rels, ok))

NextClusters ==
    \/ CallMigrateClusters
    \/ CallRevertClusters

SpecClusters == InitClusters /\ [][NextClusters]_vars

(***************************************************************************)
(* main(): one invocation, statement by statement.                         *)
(***************************************************************************)
tenant1 == Str2("t", "1")
tenantMissing == Str2("t", "9")

\* the trees the controller may hold when main() runs
ControllerTrees ==
    {TenantWith(<<EPG(Str2("e", "1"), q)>>) : q \in PoolSeqs(MaxFolders - 1)}
        \cup TwoEpgTrees

\* the record lists the controller may hold when main() runs
ControllerRecords == {q \in RecordLists : Len(q) <= MaxRecords - 1}

ArgSets ==
    [parameters : BOOLEAN, clusters : BOOLEAN, revert : BOOLEAN,
     cleanup : BOOLEAN, tenant : {None, tenant1, tenantMissing},
     app : {None, app1, appMissing}, dry_run : BOOLEAN]

\* parse_args without its last test (cleanup combined with another action)
parse_args_without_cleanup_test(a) ==
    /\ ~(a.tenant = None \/ a.app = None)
    /\ \/ (~a.parameters /\ ~a.clusters /\ ~a.cleanup /\ ~a.revert)
       \/ (a.revert /\ ~a.parameters /\ ~a.clusters)
       \/ (a.revert /\ a.cleanup)

\* parse_args: the combinations it exits on; nothing is checked when the
\* tenant or the app is not given
parse_args_rejects(a) ==
    /\ ~(a.tenant = None \/ a.app = None)
    /\ \/ (~a.parameters /\ ~a.clusters /\ ~a.cleanup /\ ~a.revert)
       \/ (a.revert /\ ~a.parameters /\ ~a.clusters)
       \/ (a.revert /\ a.cleanup)
       \/ (a.cleanup /\ (a.parameters \/ a.clusters))

\* whether main() fetches the deep tree
FetchesTree(a) == a.parameters \/ a.cleanup \/ (a.revert /\ a.parameters)

InitMain ==
    /\ args \in ArgSets
    /\ tenant0 \in (IF FetchesTree(args) THEN ControllerTrees
                    ELSE {TenantWith(<<>>)})
    /\ rels \in (IF args.clusters THEN ControllerRecords ELSE {<<>>})
    /\ pc = "parse_args"
    /\ tenant = Tenant(None, <<>>)
    /\ changes_made = FALSE
    /\ clusters = <<>>
    /\ pushed = <<>>
    /\ ran = <<>>
    /\ app_name = args.app
    /\ same = TRUE
    /\ last = ""
    /\ prior = ""
    /\ ret = FALSE
    /\ steps = 0
    /\ fwd = 0
    /\ cln = NoCleanup
    /\ query_ok = TRUE
    /\ out = <<>>
    /\ err = ""

harnessVars == <<app_name, tenant0, same, last, prior, ret, steps, fwd, cln>>

\* lines 410 and 34-53
ParseArgs ==
    /\ pc = "parse_args"
    /\ pc' = IF parse_args_rejects(args) THEN "exit" ELSE "login"
    /\ UNCHANGED <<tenant, args, changes_made, clusters, pushed, ran,
                   harnessVars, clusterVars>>

\* the names of the AppProfiles of the tenant on the controller
AppNames == {tenant0.children[i].name : i \in 1..Len(tenant0.children)}

\* lines 411-444: login, then the tenant and the AppProfile are looked up
Lookup ==
    /\ pc = "login"
    /\ \E login_ok \in BOOLEAN :
          pc' = IF ~login_ok THEN "exit"
                ELSE IF args.tenant = None THEN "exit"
                ELSE IF args.tenant /= tenant0.name THEN "exit"
                ELSE IF (args.parameters \/ args.cleanup) /\ args.app = None
                THEN "exit"
                ELSE IF (args.parameters \/ args.cleanup)
                        /\ args.app \notin AppNames
                THEN "exit"
                ELSE "fetch"
    /\ UNCHANGED <<tenant, args, changes_made, clusters, pushed, ran,
                   harnessVars, clusterVars>>

\* lines 450-457
Fetch ==
    /\ pc = "fetch"
    /\ tenant' = IF FetchesTree(args) THEN tenant0
                 ELSE Tenant(args.tenant, <<>>)
    /\ changes_made' = FALSE
    /\ pc' = "keys"
    /\ UNCHANGED <<args, clusters, pushed, ran, harnessVars, clusterVars>>

\* a pass of main(): run when selected, its result or-ed into changes_made
MainPass(at, selected, name, r, next) ==
    /\ pc = at
    /\ IF selected
       THEN /\ tenant' = r.tenant
            /\ changes_made' = (r.changed \/ changes_made)
            /\ ran' = Append(ran, name)
       ELSE UNCHANGED <<tenant, changes_made, ran>>
    /\ pc' = next
    /\ UNCHANGED <<args, clusters, pushed, harnessVars, clusterVars>>

\* line 460
MainKeys ==
    MainPass("keys", args.parameters /\ ~args.revert, "keys",
             migrate_interface_folder_keys(tenant, args.app), "zones")

\* line 461
MainZones ==
    MainPass("zones", args.parameters /\ ~args.revert, "zones",
             migrate_zones_and_vlans(tenant, args.app), "gateway")

\* line 462
MainGateway ==
    MainPass("gateway", args.parameters /\ ~args.revert, "gateway",
             migrate_default_gateway(tenant, args.app), "migrate_clusters")

\* a cluster call of main(): an exception ends the process
MainClusters(at, selected, name, next) ==
    /\ pc = at
    /\ IF selected
       THEN \E ok \in BOOLEAN :
              LET r == IF name = "migrate_clusters"
                       THEN migrate_clusters(rels, ok)
                       ELSE revert_clusters(rels, ok)
              IN /\ query_ok' = ok
                 /\ out' = r.result
                 /\ err' = r.error
                 /\ ran' = Append(ran, name)
                 /\ clusters' = IF r.error = "" THEN r.result ELSE clusters
                 /\ changes_made' = IF r.error = "" /\ r.result /= <<>>
                                    THEN TRUE ELSE changes_made
                 /\ pc' = IF r.error = "" THEN next ELSE "crashed"
       ELSE /\ pc' = next
            /\ UNCHANGED <<query_ok, out, err, ran, clusters, changes_made>>
    /\ UNCHANGED <<tenant, args, pushed, harnessVars, rels>>

\* lines 464-468
MainMigrateClusters ==
    MainClusters("migrate_clusters", args.clusters /\ ~args.revert,
                 "migrate_clusters", "cleanup")

\* lines 471-472
MainCleanup ==
    MainPass("cleanup", args.cleanup /\ ~args.revert, "cleanup",
             cleanup_interface_folders(tenant, args.app), "delete")

\* lines 475-476
MainDelete ==
    MainPass("delete", args.revert /\ args.parameters, "delete",
             delete_migrated_folders(tenant, args.app), "first_push")

\* tenant.get_json(), with the cluster entries added to the tenant's children
Payload(t, extra) == [url |-> t.name, tree |-> t, extra |-> extra]

\* session.push_to_apic(url, json): what was sent and whether resp.ok
push_to_apic(t, extra, ok) == [json |-> Payload(t, extra), ok |-> ok]

\* the first push without the test for dry-run
FirstPushIgnoringDryRun ==
    /\ pc = "first_push"
    /\ IF args.revert /\ args.parameters /\ changes_made
       THEN \E push_ok \in BOOLEAN :
              /\ pushed' = Append(pushed, push_to_apic(tenant, <<>>, push_ok))
              /\ pc' = IF push_ok THEN "restore" ELSE "exit"
       ELSE /\ pc' = "restore"
            /\ UNCHANGED pushed
    /\ UNCHANGED <<tenant, args, changes_made, clusters, ran, harnessVars,
                   clusterVars>>

\* the first push without the exit on a failed response
FirstPushIgnoringFailure ==
    /\ pc = "first_push"
    /\ IF args.revert /\ args.parameters /\ ~args.dry_run /\ changes_made
       THEN \E push_ok \in BOOLEAN :
              /\ pushed' = Append(pushed, push_to_apic(tenant, <<>>, push_ok))
              /\ pc' = "restore"
       ELSE /\ pc' = "restore"
            /\ UNCHANGED pushed
    /\ UNCHANGED <<tenant, args, changes_made, clusters, ran, harnessVars,
                   clusterVars>>

\* lines 477-484: the first push of a revert of parameters
FirstPush ==
    /\ pc = "first_push"
    /\ IF args.revert /\ args.parameters /\ ~args.dry_run /\ changes_made
       THEN \E push_ok \in BOOLEAN :
              /\ pushed' = Append(pushed, push_to_apic(tenant, <<>>, push_ok))
              /\ pc' = IF push_ok THEN "restore" ELSE "exit"
       ELSE /\ pc' = "restore"
            /\ UNCHANGED pushed
    /\ UNCHANGED <<tenant, args, changes_made, clusters, ran, harnessVars,
                   clusterVars>>

\* line 485
MainRestore ==
    MainPass("restore", args.revert /\ args.parameters, "revert",
             revert_interface_folders(tenant, args.app), "revert_clusters")

\* lines 487-490
MainRevertClusters ==
    MainClusters("revert_clusters", args.revert /\ args.clusters,
                 "revert_clusters", "push")

\* lines 493-512
FinalPush ==
    /\ pc = "push"
    /\ IF ~args.dry_run /\ changes_made
       THEN \E push_ok \in BOOLEAN :
              /\ pushed' = Append(pushed,
                               push_to_apic(tenant,
                                   IF args.clusters THEN clusters ELSE <<>>,
                                   push_ok))
              /\ pc' = IF push_ok THEN "done" ELSE "exit"
       ELSE /\ pc' = "done"
            /\ UNCHANGED pushed
    /\ UNCHANGED <<tenant, args, changes_made, clusters, ran, harnessVars,
                   clusterVars>>

Next ==
    \/ ParseArgs
    \/ Lookup
    \/ Fetch
    \/ MainKeys
    \/ MainZones
    \/ MainGateway
    \/ MainMigrateClusters
    \/ MainCleanup
    \/ MainDelete
    \/ FirstPush
    \/ MainRestore
    \/ MainRevertClusters
    \/ FinalPush

Spec == InitMain /\ [][Next]_vars

(***************************************************************************)
(* Comparing trees by their live content: deleted nodes dropped, children  *)
(* taken as a bag (the controller keys children by name, not by position). *)
(***************************************************************************)
IsDeleted(node) ==
    node.cls \in {"Folder", "Parameter", "Relation"} /\ node.deleted

BagOfSeq(q) ==
    [x \in {q[i] : i \in 1..Len(q)} |->
        Cardinality({i \in 1..Len(q) : q[i] = x})]

RECURSIVE LiveContent(_)
LiveContent(node) ==
    IF node.cls \in {"Parameter", "Relation"} THEN node
    ELSE LET live == SelectSeq(node.children, LAMBDA c : ~IsDeleted(c))
         IN [node EXCEPT !.children =
                BagOfSeq([i \in 1..Len(live) |-> LiveContent(live[i])])]

AppFound == get_child(tenant0, "AppProfile", app_name) /= 0

\* the pre-migration tree holds InterfaceConfig folders, none already suffixed
HoldsUnsuffixedInterfaceConfig ==
    /\ \E i \in 1..Len(AppFolders(tenant0, app_name)) :
          AppFolders(tenant0, app_name)[i].key = InterfaceConfig
    /\ \A i \in 1..Len(AppFolders(tenant0, app_name)) :
          AppFolders(tenant0, app_name)[i].key = InterfaceConfig
              => ~EndsWith(AppFolders(tenant0, app_name)[i].name, premigration)

\* the pre-migration tree is a version-1.2 tree: no EPG-level folder of the
\* AppProfile has a suffixed name or a version-1.3 key
IsVersion12Tree ==
    \A i \in 1..Len(AppFolders(tenant0, app_name)) :
        /\ ~EndsWith(AppFolders(tenant0, app_name)[i].name, premigration)
        /\ ~IsMigratedFolder(AppFolders(tenant0, app_name)[i])

\* C1 as stated: after keys, zones, gateway, delete, revert on any tree whose
\* EPGs hold InterfaceConfig folders, none suffixed, the live content equals the
\* pre-migration tree.
RoundTripAnyTree ==
    (fwd = 5 /\ HoldsUnsuffixedInterfaceConfig)
        => LiveContent(tenant) = LiveContent(tenant0)

\* C1 amended: after keys, zones, gateway, delete, revert on a tree whose EPGs
\* hold no suffixed folder and no folder with key Interface, Zone, Vlan or
\* StaticRoute, the live content equals the pre-migration tree (every other
\* node is marked deleted).
RoundTrip ==
    (fwd = 5 /\ IsVersion12Tree)
        => LiveContent(tenant) = LiveContent(tenant0)

RoundTripWitness ==
    /\ fwd = 5
    /\ IsVersion12Tree
    /\ HoldsUnsuffixedInterfaceConfig
    /\ ret
    /\ tenant /= tenant0

\* C2: a second consecutive run of migrate_interface_folder_keys leaves the
\* tree as the first run left it (no further backup, no key changed) and
\* returns False.
KeysIdempotent ==
    (last = "keys" /\ prior = "keys") => (same /\ ~ret)

KeysIdempotentWitness ==
    /\ last = "keys" /\ prior = "keys" /\ steps = 2
    /\ tenant /= tenant0
    /\ \E i \in 1..Len(AppFolders(tenant, app_name)) :
          IsBackupFolder(AppFolders(tenant, app_name)[i])

\* C3: after cleanup_interface_folders, followed only by delete_migrated_folders
\* and revert_interface_folders, the live InterfaceConfig folders are those
\* cleanup left live: no backup it marked deleted is live again.
NoResurrection ==
    cln.seen => LiveInterfaceConfig(tenant, app_name) = cln.live

NoResurrectionWitness ==
    /\ cln.seen /\ cln.changed /\ cln.reverted
    /\ last = "revert" /\ prior = "delete"
    /\ \E i, j \in 1..Len(AppFolders(tenant0, app_name)) :
          /\ AppFolders(tenant0, app_name)[i] = BackupF3
          /\ AppFolders(tenant0, app_name)[j] = MigratedF3
    /\ \E i \in 1..Len(AppFolders(tenant, app_name)) :
          /\ AppFolders(tenant, app_name)[i].key = InterfaceConfig
          /\ AppFolders(tenant, app_name)[i].deleted

(***************************************************************************)
(* The forward postcondition, stated over the pre-migration tree: folder i *)
(* of EPG e of the named AppProfile, its sub-folder j, its parameter k.    *)
(***************************************************************************)
layer3 == <<"l","a","y","e","r","3">>
layer2 == <<"l","a","y","e","r","2">>

Epgs(t) == t.children[get_child(t, "AppProfile", app_name)].children

SameLabels(new, f) ==
    /\ new.ctrctNameOrLbl = f.ctrctNameOrLbl
    /\ new.devCtxLbl = f.devCtxLbl
    /\ new.graphNameOrLbl = f.graphNameOrLbl
    /\ new.nodeNameOrLbl = f.nodeNameOrLbl
    /\ new.scopedBy = f.scopedBy

HasParameter(folder, key, value) ==
    \E x \in 1..Len(folder.children) :
        /\ IsA(folder.children[x], "Parameter")
        /\ folder.children[x].key = key
        /\ folder.children[x].value = value

HasRelation(folder, key, target) ==
    \E x \in 1..Len(folder.children) :
        /\ IsA(folder.children[x], "Relation")
        /\ folder.children[x].key = key
        /\ folder.children[x].targetName = target

\* some live EPG-level folder of kids satisfies P
ExistsFolder(kids, P(_)) ==
    \E x \in 1..Len(kids) : IsA(kids[x], "Folder") /\ ~kids[x].deleted /\ P(kids[x])

\* what the three passes owe parameter p0 of sub-folder sub0 of folder f0;
\* kids are the EPG's children and sub the sub-folder after the passes
ParameterMigrated(p0, p, sub0, sub, f0, kids) ==
    /\ p0.key = security_zone =>
          /\ p.deleted
          /\ ExistsFolder(kids, LAMBDA z :
                /\ z.key = Zone /\ z.name = p0.value /\ SameLabels(z, f0)
                /\ HasParameter(z, mode,
                       IF sub0.key = Layer3InterfaceConfig THEN layer3 ELSE layer2))
          /\ HasRelation(sub, zone, p0.value)
    /\ p0.key = bridge_domain =>
          /\ p.deleted
          /\ ExistsFolder(kids, LAMBDA v :
                /\ v.key = Vlan /\ v.name = p0.value /\ SameLabels(v, f0)
                /\ \A x \in 1..Len(v.children) : v.children[x].key /= mode)
          /\ HasRelation(sub, vlan, p0.value)
    /\ p0.key = default_gateway =>
          /\ p.deleted
          /\ ExistsFolder(kids, LAMBDA r :
                /\ r.key = StaticRoute /\ r.name = default_gateway
                /\ SameLabels(r, f0)
                /\ HasParameter(r, nexthop, p0.value)
                /\ HasParameter(r, destination, default_route))
          /\ \A x \in 1..Len(sub.children) :
                IsA(sub.children[x], "Relation")
                    => sub.children[x].targetName /= default_gateway

FolderMigrated(f0, f, kids) ==
    /\ ExistsFolder(kids, LAMBDA b :
          /\ b.name = f0.name \o premigration
          /\ b.key = InterfaceConfig
          /\ b.children = f0.children)
    /\ f.name = f0.name
    /\ f.key = Interface
    /\ \A j \in 1..Len(f0.children) :
          (/\ IsA(f0.children[j], "Folder")
           /\ f0.children[j].key \in {Layer3InterfaceConfig, Layer2InterfaceConfig})
          => /\ f.children[j].key =
                  (IF f0.children[j].key = Layer3InterfaceConfig
                   THEN Layer3Interface ELSE Layer2Interface)
             /\ \A k \in 1..Len(f0.children[j].children) :
                   IsA(f0.children[j].children[k], "Parameter")
                   => ParameterMigrated(f0.children[j].children[k],
                                        f.children[j].children[k],
                                        f0.children[j], f.children[j], f0, kids)

\* C8: after the three forward passes in order, every EPG folder that had key
\* InterfaceConfig and no suffix has its backup, its key Interface, its layer
\* sub-folder keys stripped of Config, its three parameters marked deleted, and
\* the Zone (with mode), Vlan (with no mode) and StaticRoute folders with their
\* Relations (none for the StaticRoute), each copying the folder's five labels.
ForwardPostcondition ==
    (fwd = 3 /\ AppFound) =>
        \A e \in 1..Len(Epgs(tenant0)) :
            \A i \in 1..Len(Epgs(tenant0)[e].children) :
                (/\ IsA(Epgs(tenant0)[e].children[i], "Folder")
                 /\ Epgs(tenant0)[e].children[i].key = InterfaceConfig
                 /\ ~EndsWith(Epgs(tenant0)[e].children[i].name, premigration))
                => FolderMigrated(Epgs(tenant0)[e].children[i],
                                  Epgs(tenant)[e].children[i],
                                  Epgs(tenant)[e].children)

ForwardPostconditionWitness ==
    /\ fwd = 3 /\ AppFound
    /\ \E i, j \in 1..Len(Epgs(tenant0)[1].children) :
          /\ Epgs(tenant0)[1].children[i] = IfaceL3
          /\ Epgs(tenant0)[1].children[j] = IfaceL2
    /\ \E x \in 1..Len(Epgs(tenant)[1].children) :
          Epgs(tenant)[1].children[x].key = StaticRoute

\* C10: a second consecutive run of migrate_zones_and_vlans, or of
\* migrate_default_gateway, on the tree it has just rewritten leaves the tree
\* as it is and returns False.
ExtractionIdempotent ==
    (last = prior /\ last \in {"zones", "gateway"}) => (same /\ ~ret)

(***************************************************************************)
(* The cluster calls' contract, stated over the records queried.           *)
(***************************************************************************)
\* the reference target of a fetched record, None when it has none of the
\* three shapes
TargetOf(cluster) ==
    IF HasKey(cluster, "vnsRsMDevAtt") THEN cluster.vnsRsMDevAtt.attributes.tDn
    ELSE IF HasKey(cluster, "vnsRsDevMgrToMDevMgr")
    THEN cluster.vnsRsDevMgrToMDevMgr.attributes.tDn
    ELSE IF HasKey(cluster, "vnsRsChassisToMChassis")
    THEN cluster.vnsRsChassisToMChassis.attributes.tDn
    ELSE None

\* the reference target an emitted entry carries
EmittedTarget(entry) ==
    IF HasKey(entry, "vnsLDevVip")
    THEN entry.vnsLDevVip.children[1].vnsRsMDevAtt.attributes.tDn
    ELSE TargetOf(entry)

Version12 == {mDev12, mDevMgr12, mChassis12}
Version13 == {mDev13, mDevMgr13, mChassis13}

Upgraded(tDn) ==
    IF tDn = mDev12 THEN mDev13
    ELSE IF tDn = mDevMgr12 THEN mDevMgr13 ELSE mChassis13

Downgraded(tDn) ==
    IF tDn = mDev13 THEN mDev12
    ELSE IF tDn = mDevMgr13 THEN mDevMgr12 ELSE mChassis12

\* the records of the last query whose target is one of the literals in from
Matching(from) ==
    SelectSeq(get_clusters(rels, query_ok), LAMBDA c : TargetOf(c) \in from)

\* C6: migrate_clusters returns one entry per record whose target is a
\* version-1.2 literal of any of the three shapes, carrying the corresponding
\* 1.3 literal, and revert_clusters one entry per 1.3 record, carrying the
\* original 1.2 literal.
ClusterMappingRoundTrips ==
    /\ last = "migrate_clusters" =>
          /\ err = ""
          /\ Len(out) = Len(Matching(Version12))
          /\ \A n \in 1..Len(out) :
                EmittedTarget(out[n]) = Upgraded(TargetOf(Matching(Version12)[n]))
    /\ last = "revert_clusters" =>
          /\ err = ""
          /\ Len(out) = Len(Matching(Version13))
          /\ \A n \in 1..Len(out) :
                EmittedTarget(out[n]) = Downgraded(TargetOf(Matching(Version13)[n]))

\* C7: when no queried record matches the literal being replaced, the call
\* returns, and returns an empty list.
UnmatchedRecordsIgnored ==
    /\ (last = "migrate_clusters" /\ Matching(Version12) = <<>>)
          => (err = "" /\ out = <<>>)
    /\ (last = "revert_clusters" /\ Matching(Version13) = <<>>)
          => (err = "" /\ out = <<>>)

(***************************************************************************)
(* main(): what an invocation runs and pushes.                             *)
(***************************************************************************)
\* the combinations of actions the command line forbids
InvalidCombination(a) ==
    \/ (~a.parameters /\ ~a.clusters /\ ~a.cleanup /\ ~a.revert)
    \/ (a.revert /\ ~a.parameters /\ ~a.clusters)
    \/ (a.revert /\ a.cleanup)
    \/ (a.cleanup /\ (a.parameters \/ a.clusters))

\* C4: an invocation with an invalid combination of actions, with or without
\* the tenant and app arguments, runs no pass and pushes nothing.
InvalidCombinationRunsNothing ==
    InvalidCombination(args) => (ran = <<>> /\ pushed = <<>>)

InvalidCombinationWitness ==
    /\ InvalidCombination(args)
    /\ args.revert /\ args.app = None
    /\ pc = "done"

\* the passes the action flags select, in main()'s order
SelectedPasses(a) ==
    (IF a.parameters /\ ~a.revert THEN <<"keys", "zones", "gateway">> ELSE <<>>)
    \o (IF a.clusters /\ ~a.revert THEN <<"migrate_clusters">> ELSE <<>>)
    \o (IF a.cleanup /\ ~a.revert THEN <<"cleanup">> ELSE <<>>)
    \o (IF a.revert /\ a.parameters THEN <<"delete", "revert">> ELSE <<>>)
    \o (IF a.revert /\ a.clusters THEN <<"revert_clusters">> ELSE <<>>)

\* C5: with dry-run set nothing is ever pushed, and an invocation that gets
\* past the lookups to its end (or to an exception in its last pass) has run
\* every selected pass in memory.
DryRunNeverPushes ==
    args.dry_run =>
        /\ pushed = <<>>
        /\ pc \in {"done", "crashed"} => ran = SelectedPasses(args)

DryRunWitness ==
    /\ args.dry_run /\ args.revert /\ args.parameters
    /\ pc = "done"
    /\ changes_made
    /\ ran = <<"delete", "revert">>

\* the node a backup test and a deletion mark turn node0 into
MarkedIf(node0, marked) ==
    IF marked THEN [node0 EXCEPT !.deleted = TRUE] ELSE node0

\* t is t0 with exactly the EPG-level backups of the named AppProfile marked
OnlyBackupsMarked(t, t0, name) ==
    /\ t.name = t0.name
    /\ Len(t.children) = Len(t0.children)
    /\ \A a \in 1..Len(t0.children) :
          /\ t.children[a].name = t0.children[a].name
          /\ Len(t.children[a].children) = Len(t0.children[a].children)
          /\ \A e \in 1..Len(t0.children[a].children) :
                LET epg == t.children[a].children[e]
                    epg0 == t0.children[a].children[e]
                IN /\ epg.name = epg0.name
                   /\ Len(epg.children) = Len(epg0.children)
                   /\ \A i \in 1..Len(epg0.children) :
                         epg.children[i] =
                            MarkedIf(epg0.children[i],
                                /\ t0.children[a].name = name
                                /\ epg0.children[i].cls = "Folder"
                                /\ epg0.children[i].key = InterfaceConfig
                                /\ EndsWith(epg0.children[i].name, premigration))

HasBackups(t0, name) ==
    \E i \in 1..Len(AppFolders(t0, name)) :
        /\ AppFolders(t0, name)[i].key = InterfaceConfig
        /\ EndsWith(AppFolders(t0, name)[i].name, premigration)

\* C9: once a cleanup invocation has run cleanup_interface_folders, the tree is
\* the fetched tree with exactly the suffixed InterfaceConfig folders of the
\* named AppProfile's EPGs marked deleted, changes_made says whether there was
\* one, and with none the invocation ends with nothing pushed.
CleanupMarksExactlyBackups ==
    (ran /= <<>> /\ ran[Len(ran)] = "cleanup") =>
        /\ OnlyBackupsMarked(tenant, tenant0, args.app)
        /\ changes_made <=> HasBackups(tenant0, args.app)
        /\ (pc \in {"done", "exit"} /\ ~HasBackups(tenant0, args.app))
              => pushed = <<>>

CleanupWitness ==
    /\ ran = <<"cleanup">>
    /\ pc = "done"
    /\ HasBackups(tenant0, args.app)
    /\ \E i \in 1..Len(AppFolders(tenant0, args.app)) :
          AppFolders(tenant0, args.app)[i].key = InterfaceConfig
          /\ ~EndsWith(AppFolders(tenant0, args.app)[i].name, premigration)
    /\ Len(pushed) = 1
    /\ changes_made

(***************************************************************************)
(* main(): the two pushes of a revert of parameters.                       *)
(***************************************************************************)
MigratedKeys == {Interface, Zone, Vlan, StaticRoute}

\* the fetched tree holds a version-1.3 folder under an EPG of the named
\* AppProfile
HasMigrated(t0, name) ==
    \E i \in 1..Len(AppFolders(t0, name)) :
        AppFolders(t0, name)[i].key \in MigratedKeys

\* t is t0 with exactly the EPG-level version-1.3 folders of the named
\* AppProfile marked deleted: every name, backups' suffixes included, is as
\* fetched
OnlyMigratedMarked(t, t0, name) ==
    /\ t.name = t0.name
    /\ Len(t.children) = Len(t0.children)
    /\ \A a \in 1..Len(t0.children) :
          /\ t.children[a].name = t0.children[a].name
          /\ Len(t.children[a].children) = Len(t0.children[a].children)
          /\ \A e \in 1..Len(t0.children[a].children) :
                LET epg == t.children[a].children[e]
                    epg0 == t0.children[a].children[e]
                IN /\ epg.name = epg0.name
                   /\ Len(epg.children) = Len(epg0.children)
                   /\ \A i \in 1..Len(epg0.children) :
                         epg.children[i] =
                            MarkedIf(epg0.children[i],
                                /\ t0.children[a].name = name
                                /\ epg0.children[i].cls = "Folder"
                                /\ epg0.children[i].key \in MigratedKeys)

\* in t every backup of t0 is back: a live folder carries its name and label
\* without the suffix, its key and its children, and no live folder of t
\* still has a suffixed name
BackupsRestored(t, t0, name) ==
    /\ \A i \in 1..Len(AppFolders(t0, name)) :
          LET b == AppFolders(t0, name)[i]
          IN (b.key = InterfaceConfig /\ EndsWith(b.name, premigration)) =>
                \E j \in 1..Len(AppFolders(t, name)) :
                    LET f == AppFolders(t, name)[j]
                    IN /\ ~f.deleted
                       /\ f.key = InterfaceConfig
                       /\ f.name \o premigration = b.name
                       /\ f.ctrctNameOrLbl \o premigration = b.ctrctNameOrLbl
                       /\ f.children = b.children
    /\ \A j \in 1..Len(AppFolders(t, name)) :
          EndsWith(AppFolders(t, name)[j].name, premigration)
              => AppFolders(t, name)[j].deleted

\* C11: in a revert of parameters without dry-run on a tree that holds a
\* version-1.3 folder, the first push comes once delete_migrated_folders has
\* run and before revert_interface_folders, and carries the fetched tree with
\* exactly those folders marked deleted (backups still suffixed); when it
\* fails the process stops there, with no restore and no second push; a
\* second push comes only after the restore and carries the restored backups.
TwoStageRevertPush ==
    (args.revert /\ args.parameters /\ ~args.dry_run
        /\ HasMigrated(tenant0, args.app)) =>
        /\ ran = <<>> => pushed = <<>>
        /\ (ran /= <<>> /\ pc /= "first_push") => pushed /= <<>>
        /\ pushed /= <<>> =>
              /\ ran[1] = "delete"
              /\ pushed[1].json.extra = <<>>
              /\ OnlyMigratedMarked(pushed[1].json.tree, tenant0, args.app)
        /\ (pushed /= <<>> /\ ~pushed[1].ok) =>
              /\ pc = "exit"
              /\ ran = <<"delete">>
              /\ Len(pushed) = 1
        /\ Len(pushed) > 1 =>
              /\ Len(pushed) = 2
              /\ pushed[1].ok
              /\ Len(ran) > 1 /\ ran[2] = "revert"
              /\ pushed[2].json.tree = tenant
              /\ BackupsRestored(pushed[2].json.tree, tenant0, args.app)

TwoStageRevertPushWitness ==
    /\ args.revert /\ args.parameters /\ ~args.dry_run
    /\ HasMigrated(tenant0, args.app)
    /\ HasBackups(tenant0, args.app)
    /\ Len(pushed) = 2
    /\ pc = "done"

(***************************************************************************)
(* main(): what gates the push.                                            *)
(***************************************************************************)
\* what the pass called name returns on tree t
PassResult(name, t) ==
    IF name = "keys" THEN migrate_interface_folder_keys(t, args.app)
    ELSE IF name = "zones" THEN migrate_zones_and_vlans(t, args.app)
    ELSE IF name = "gateway" THEN migrate_default_gateway(t, args.app)
    ELSE IF name = "cleanup" THEN cleanup_interface_folders(t, args.app)
    ELSE IF name = "delete" THEN delete_migrated_folders(t, args.app)
    ELSE IF name = "revert" THEN revert_interface_folders(t, args.app)
    ELSE NoChange(t)

\* whether one of the calls executed so far, replayed from the fetched tree,
\* returned True, or the cluster call returned a non-empty list
RECURSIVE SomePassChangedFrom(_, _)
SomePassChangedFrom(t, i) ==
    IF i > Len(ran) THEN FALSE
    ELSE IF ran[i] \in {"migrate_clusters", "revert_clusters"}
    THEN (err = "" /\ out /= <<>>) \/ SomePassChangedFrom(t, i + 1)
    ELSE PassResult(ran[i], t).changed
            \/ SomePassChangedFrom(PassResult(ran[i], t).tenant, i + 1)

SomePassChanged == SomePassChangedFrom(tenant0, 1)

\* the process has ended: main() returned, called sys.exit, or died of an
\* exception
Ended == pc \in {"done", "exit", "crashed"}

\* C12: when an invocation without dry-run has ended, something was pushed
\* if and only if an executed pass returned True or the cluster call returned
\* a non-empty list.
UnionGatesPush ==
    (~args.dry_run /\ Ended) => (pushed /= <<>> <=> SomePassChanged)

\* the same for the invocations no exception ended
UnionGatesPushWhenPassesReturn ==
    (~args.dry_run /\ Ended /\ pc /= "crashed")
        => (pushed /= <<>> <=> SomePassChanged)

====
